---------------------------- MODULE Spec2Model ----------------------------
(***************************************************************************)
(* A model of exported_splitter (src/tool.py): the selection parser, the   *)
(* material include traversal, the dependency gatherer, the per-model      *)
(* exporter and main's export loop.                                        *)
(*                                                                         *)
(* Strings are sequences of one-character strings, so that lower(),        *)
(* replace(), strip(), startswith(), endswith() and `in` are computed      *)
(* character by character as Python computes them.                         *)
(***************************************************************************)
EXTENDS Integers, Sequences, FiniteSets, TLC

VARIABLES
    \* ---- parse_selection (its inputs and its outcome)
    spec_in,        \* the selection expression typed by the user
    max_index,      \* len(models)
    sel_out,        \* NoResult, or [err |-> BOOLEAN, val |-> list of indices]
    \* ---- the pack on disk (fixed during a run)
    all_files,      \* the real (original-case) relative paths under root
    lc_map,         \* lower-cased relative path -> real relative path
    content,        \* real .vmt path -> the (key, value) pairs of its text
    mdl_tokens,     \* real .mdl path -> the path-like strings in its bytes
    \* ---- collect_vmt_and_vtf
    start_vmts,     \* the argument start_vmts of collect_vmt_and_vtf
    to_visit,       \* the work list (a Python list, popped at its end)
    seen_vmts,
    vtfs,
    read_failed,    \* history: the materials whose read_text raised
    \* ---- gather_deps_for_model / export_one
    pc,             \* where the program is
    rel_mdl,        \* the model being exported
    model_files,
    copy_queue,     \* the paths still to be handed to ensure_copy, in order
    copied,
    missing,        \* the list `missing` of export_one
    manifest,       \* NoResult, or the split_manifest.json written
    copy_failed,    \* history: the real path whose shutil.copy2 raised
    \* ---- main
    models,         \* list_model_paths(all_files)
    fs_nocase,      \* whether the file system matches names without case
    root_entries,   \* the entries of the root directory: [name, isdir]
    old_entries,    \* history: the names present before the export loop
    picks,          \* the selected indices
    pick_pos,       \* position in picks of the model being processed
    n,              \* the export numbering counter
    export_dir,     \* name of the Export Unit being written
    created_dirs,
    failures,
    attempted,      \* history: the positions of picks given to export_one
    unit_names      \* history: the directory made for each processed pick

selVars  == <<spec_in, max_index, sel_out>>
packVars == <<all_files, lc_map, content, mdl_tokens>>
travVars == <<start_vmts, to_visit, seen_vmts, vtfs, read_failed>>
expVars  == <<rel_mdl, model_files, copy_queue, copied, missing, manifest, copy_failed>>
mainVars == <<models, fs_nocase, root_entries, old_entries, picks, pick_pos, n,
              export_dir, created_dirs, failures, attempted, unit_names>>
vars == <<selVars, packVars, travVars, expVars, mainVars, pc>>

NoResult == [none |-> TRUE]

-----------------------------------------------------------------------------
(* Bounds of the model *)

\* longest generated selection expression, in characters
MaxSpecLen == 4
\* largest number of listed models given to parse_selection
MaxIndex == 3

-----------------------------------------------------------------------------
(* Python's str operations, on sequences of characters *)

UpperChars == <<"A","B","C","D","E","F","G","H","I","J","K","L","M",
                "N","O","P","Q","R","S","T","U","V","W","X","Y","Z">>
LowerChars == <<"a","b","c","d","e","f","g","h","i","j","k","l","m",
                "n","o","p","q","r","s","t","u","v","w","x","y","z">>
DigitChars == <<"0","1","2","3","4","5","6","7","8","9">>

Range(s) == {s[i] : i \in DOMAIN s}

LowerOfUpper == [c \in Range(UpperChars) |->
                    LowerChars[CHOOSE i \in DOMAIN UpperChars : UpperChars[i] = c]]

LowerCh(c) == IF c \in DOMAIN LowerOfUpper THEN LowerOfUpper[c] ELSE c

\* str.lower()
Lower(s) == [i \in 1..Len(s) |-> LowerCh(s[i])]

IsSpace(c) == c \in {" ", "\t", "\n"}

\* str.strip()
Strip(s) ==
    IF \A i \in 1..Len(s) : IsSpace(s[i]) THEN <<>>
    ELSE LET a == CHOOSE i \in 1..Len(s) :
                      ~IsSpace(s[i]) /\ \A j \in 1..(i-1) : IsSpace(s[j])
             b == CHOOSE i \in 1..Len(s) :
                      ~IsSpace(s[i]) /\ \A j \in (i+1)..Len(s) : IsSpace(s[j])
         IN  SubSeq(s, a, b)

\* str.startswith(p), str.endswith(p)
StartsWith(s, p) == Len(p) <= Len(s) /\ SubSeq(s, 1, Len(p)) = p
EndsWith(s, p) == Len(p) <= Len(s) /\ SubSeq(s, Len(s) - Len(p) + 1, Len(s)) = p

\* `p in s` for strings
Contains(s, p) ==
    \E i \in 1..(Len(s) - Len(p) + 1) : SubSeq(s, i, i + Len(p) - 1) = p

\* str.replace(old, new): non-overlapping occurrences, left to right
RECURSIVE Replace(_, _, _)
Replace(s, old, new) ==
    IF Len(s) = 0 THEN <<>>
    ELSE IF StartsWith(s, old)
         THEN new \o Replace(SubSeq(s, Len(old) + 1, Len(s)), old, new)
         ELSE <<s[1]>> \o Replace(Tail(s), old, new)

\* str.isdigit() (ASCII digits)
IsDigit(s) == Len(s) > 0 /\ \A i \in 1..Len(s) : s[i] \in Range(DigitChars)

DigitVal(c) == (CHOOSE i \in DOMAIN DigitChars : DigitChars[i] = c) - 1

\* int(s) of a digit string
RECURSIVE IntOf(_)
IntOf(s) ==
    IF Len(s) = 0 THEN 0
    ELSE IntOf(SubSeq(s, 1, Len(s) - 1)) * 10 + DigitVal(s[Len(s)])

\* str(k) of a natural number
RECURSIVE StrOf(_)
StrOf(k) ==
    IF k < 10 THEN <<DigitChars[k + 1]>>
    ELSE StrOf(k \div 10) \o <<DigitChars[(k % 10) + 1]>>

\* the order of Python's sorted() on strings: by code point, then by length
CodeOrder == <<"\t", "\n", " ", "*", ",", "-", ".", "/">> \o DigitChars
             \o UpperChars \o <<"\\", "_">> \o LowerChars
CodeOf(c) == CHOOSE i \in DOMAIN CodeOrder : CodeOrder[i] = c

RECURSIVE StrLess(_, _)
StrLess(a, b) ==
    IF Len(b) = 0 THEN FALSE
    ELSE IF Len(a) = 0 THEN TRUE
    ELSE IF a[1] = b[1] THEN StrLess(Tail(a), Tail(b))
    ELSE CodeOf(a[1]) < CodeOf(b[1])

\* sorted(S) for a set of strings
RECURSIVE Sorted(_)
Sorted(S) ==
    IF S = {} THEN <<>>
    ELSE LET m == CHOOSE x \in S : \A y \in S \ {x} : StrLess(x, y)
         IN  <<m>> \o Sorted(S \ {m})

-----------------------------------------------------------------------------
(* parse_selection *)

IsSep(c) == c = "," \/ IsSpace(c)

\* re.split(r"[,\s]+", spec), without the empty strings
RECURSIVE SplitTokens(_, _)
SplitTokens(s, cur) ==
    IF Len(s) = 0 THEN (IF Len(cur) = 0 THEN <<>> ELSE <<cur>>)
    ELSE IF IsSep(s[1])
         THEN (IF Len(cur) = 0 THEN <<>> ELSE <<cur>>) \o SplitTokens(Tail(s), <<>>)
         ELSE SplitTokens(Tail(s), Append(cur, s[1]))

\* the loop `for i in range(start, end + 1)` with its guarded append; the
\* iterations past max_index fail the guard, so the recursion stops there
RECURSIVE AddRange(_, _, _, _)
AddRange(acc, i, end, maxi) ==
    IF i > end \/ i > maxi THEN acc
    ELSE IF 1 <= i /\ i <= maxi /\ i \notin acc.seen
         THEN AddRange([ordered |-> Append(acc.ordered, i), seen |-> acc.seen \cup {i}],
                       i + 1, end, maxi)
         ELSE AddRange(acc, i + 1, end, maxi)

\* t.split("-", 1)
DashAt(t) == CHOOSE k \in 1..Len(t) : t[k] = "-" /\ \A j \in 1..(k-1) : t[j] # "-"

\* whether the token passes the isdigit() checks
TokenOk(t) ==
    IF "-" \in Range(t)
    THEN IsDigit(SubSeq(t, 1, DashAt(t) - 1)) /\ IsDigit(SubSeq(t, DashAt(t) + 1, Len(t)))
    ELSE IsDigit(t)

\* a parser that takes a reversed range as empty
MutAddTokenNoSwap(acc, t, maxi) ==
    IF "-" \in Range(t)
    THEN AddRange(acc, IntOf(SubSeq(t, 1, DashAt(t) - 1)),
                  IntOf(SubSeq(t, DashAt(t) + 1, Len(t))), maxi)
    ELSE AddRange(acc, IntOf(t), IntOf(t), maxi)

\* one iteration of `for t in tokens`, for a token that raises nothing
AddToken(acc, t, maxi) ==
    IF "-" \in Range(t)
    THEN LET a == IntOf(SubSeq(t, 1, DashAt(t) - 1))
             b == IntOf(SubSeq(t, DashAt(t) + 1, Len(t)))
             start == IF a > b THEN b ELSE a
             end == IF a > b THEN a ELSE b
         IN  AddRange(acc, start, end, maxi)
    ELSE AddRange(acc, IntOf(t), IntOf(t), maxi)

RECURSIVE ParseTokens(_, _, _)
ParseTokens(tokens, acc, maxi) ==
    IF Len(tokens) = 0 THEN [err |-> FALSE, val |-> acc.ordered]
    ELSE IF ~TokenOk(Head(tokens)) THEN [err |-> TRUE, val |-> <<>>]
    ELSE ParseTokens(Tail(tokens), AddToken(acc, Head(tokens), maxi), maxi)

IsSelectAll(s) == s \in {<<"a","l","l">>, <<"*">>}

parse_selection(spec, maxi) ==
    LET s == Lower(Strip(spec))
    IN  IF IsSelectAll(s)
        THEN [err |-> FALSE, val |-> [i \in 1..maxi |-> i]]
        ELSE ParseTokens(SplitTokens(s, <<>>),
                         [ordered |-> <<>>, seen |-> {}], maxi)

-----------------------------------------------------------------------------
(* Constants of the program *)

sSlash == <<"/">>
sBackslash == <<"\\">>
sMaterials == <<"m","a","t","e","r","i","a","l","s","/">>
sModels == <<"m","o","d","e","l","s","/">>
sVmt == <<".","v","m","t">>
sVtf == <<".","v","t","f">>
sMdl == <<".","m","d","l">>

MODEL_SIDE_EXTS == <<
    sMdl,
    <<".","v","v","d">>,
    <<".","p","h","y">>,
    <<".","a","n","i">>,
    <<".","v","t","x">>,
    <<".","d","x","8","0",".","v","t","x">>,
    <<".","d","x","9","0",".","v","t","x">>,
    <<".","s","w",".","v","t","x">> >>

VMT_TEXTURE_KEYS == {
    <<"b","a","s","e","t","e","x","t","u","r","e">>,
    <<"b","a","s","e","t","e","x","t","u","r","e","2">>,
    <<"b","u","m","p","m","a","p">>,
    <<"n","o","r","m","a","l","m","a","p">>,
    <<"p","h","o","n","g","a","l","b","e","d","o","t","i","n","t">>,
    <<"p","h","o","n","g","e","x","p","o","n","e","n","t","t","e","x","t","u","r","e">>,
    <<"s","e","l","f","i","l","l","u","m","t","i","n","t">>,
    <<"l","i","g","h","t","w","a","r","p","t","e","x","t","u","r","e">>,
    <<"d","e","t","a","i","l">>,
    <<"e","n","v","m","a","p","m","a","s","k">>,
    <<"a","m","b","i","e","n","t","o","c","c","l","t","e","x","t","u","r","e">>,
    <<"b","l","e","n","d","m","o","d","u","l","a","t","e","t","e","x","t","u","r","e">>,
    <<"a","l","b","e","d","o">>,
    <<"h","e","i","g","h","t","m","a","p">>,
    <<"m","r","a","o","t","e","x","t","u","r","e">>,
    <<"r","o","u","g","h","n","e","s","s","t","e","x","t","u","r","e">>,
    <<"m","e","t","a","l","i","c","t","e","x","t","u","r","e">> }

VMT_INCLUDE_KEYS == { <<"i","n","c","l","u","d","e">> }

-----------------------------------------------------------------------------
(* The File Index *)

\* Python's None, and every other falsy path (`if not real_rel`)
None == <<>>

\* the lc_map build_file_index returns for the files on disk
build_file_index(files) ==
    [key \in {Lower(f) : f \in files} |-> CHOOSE f \in files : Lower(f) = key]

\* lc_map.get(key)
lc_get(key) == IF key \in DOMAIN lc_map THEN lc_map[key] ELSE None

-----------------------------------------------------------------------------
(* VMT/VTF discovery *)

norm_to_materials(p, ext) ==
    LET p1 == Lower(Strip(Replace(p, sBackslash, sSlash)))
        p2 == IF EndsWith(p1, ext) THEN p1 ELSE p1 \o ext
    IN  IF StartsWith(p2, sMaterials) THEN p2 ELSE sMaterials \o p2

\* The text of a material is given as the pairs _parse_vmt_pairs finds in it.
parse_vmt_for_dependencies(pairs) ==
    [vtfs |-> {norm_to_materials(kv[2], sVtf) :
                  kv \in {q \in pairs : Lower(q[1]) \in VMT_TEXTURE_KEYS}},
     includes |-> {norm_to_materials(kv[2], sVmt) :
                  kv \in {q \in pairs : Lower(q[1]) \notin VMT_TEXTURE_KEYS
                                        /\ Lower(q[1]) \in VMT_INCLUDE_KEYS}}]

\* the orders in which a Python set can be iterated
Orders(S) ==
    {o \in [1..Cardinality(S) -> S] : \A i, j \in 1..Cardinality(S) : o[i] = o[j] => i = j}

\* a traversal without the fallback resolution
MutResolveNoCollapse(vmt_rel) == lc_get(vmt_rel)

\* real_rel of collect_vmt_and_vtf: the index entry, else the entry of the
\* path with "materials/materials/" collapsed
Resolve(vmt_rel) ==
    IF lc_get(vmt_rel) # None THEN lc_get(vmt_rel)
    ELSE lc_get(Replace(vmt_rel, sMaterials \o sMaterials, sMaterials))

\* `if vmt_rel in seen_vmts: continue`
AlreadySeen(vmt_rel, seen) == vmt_rel \in seen

\* a traversal that forgets to mark the material visited
MutMarkSeenForgets(seen, vmt_rel) == seen

\* seen_vmts.add(vmt_rel)
MarkSeen(seen, vmt_rel) == seen \cup {vmt_rel}

\* a traversal that does not follow includes
MutPendingIncludesNone(includes, seen) == {}

\* the includes the loop at the end of an iteration appends
PendingIncludes(includes, seen) == {inc \in includes : inc \notin seen}

\* vtfs.update(v.lower() for v in vtfs_in_this)
CollectVtfs(acc, vtfs_in_this) == acc \cup {Lower(v) : v \in vtfs_in_this}

\* the first three statements of collect_vmt_and_vtf
CollectInit(start) ==
    /\ to_visit' \in Orders({Lower(s) : s \in start})
    /\ seen_vmts' = {}
    /\ vtfs' = {}

Popped == to_visit[Len(to_visit)]
AfterPop == SubSeq(to_visit, 1, Len(to_visit) - 1)

\* an iteration that pops a material already visited
VisitSeen ==
    /\ pc = "traverse" /\ Len(to_visit) > 0
    /\ AlreadySeen(Popped, seen_vmts)
    /\ to_visit' = AfterPop
    /\ UNCHANGED <<seen_vmts, vtfs, read_failed, start_vmts>>
    /\ UNCHANGED <<selVars, packVars, expVars, mainVars, pc>>

\* an iteration whose material resolves to no file
VisitMissing ==
    /\ pc = "traverse" /\ Len(to_visit) > 0
    /\ ~AlreadySeen(Popped, seen_vmts)
    /\ Resolve(Popped) = None
    /\ seen_vmts' = MarkSeen(seen_vmts, Popped)
    /\ to_visit' = AfterPop
    /\ UNCHANGED <<vtfs, read_failed, start_vmts>>
    /\ UNCHANGED <<selVars, packVars, expVars, mainVars, pc>>

\* an iteration whose read_text raises
VisitReadFail ==
    /\ pc = "traverse" /\ Len(to_visit) > 0
    /\ ~AlreadySeen(Popped, seen_vmts)
    /\ Resolve(Popped) # None
    /\ seen_vmts' = MarkSeen(seen_vmts, Popped)
    /\ read_failed' = read_failed \cup {Popped}
    /\ to_visit' = AfterPop
    /\ UNCHANGED <<vtfs, start_vmts>>
    /\ UNCHANGED <<selVars, packVars, expVars, mainVars, pc>>

\* an iteration that reads and parses the material
VisitParse ==
    /\ pc = "traverse" /\ Len(to_visit) > 0
    /\ ~AlreadySeen(Popped, seen_vmts)
    /\ Resolve(Popped) # None
    /\ LET deps == parse_vmt_for_dependencies(content[Resolve(Popped)])
       IN  /\ seen_vmts' = MarkSeen(seen_vmts, Popped)
           /\ vtfs' = CollectVtfs(vtfs, deps.vtfs)
           /\ \E order \in Orders(PendingIncludes(deps.includes, seen_vmts')) :
                  to_visit' = AfterPop \o order
    /\ UNCHANGED <<read_failed, start_vmts>>
    /\ UNCHANGED <<selVars, packVars, expVars, mainVars, pc>>

-----------------------------------------------------------------------------
(* The packs the model runs on *)

\* most (key, value) pairs one generated material holds
MaxPairs == 2
\* most paths in a generated start_vmts
MaxStart == 1

fModelM == sModels \o <<"p","/","M">> \o sMdl
fModelMPhy == sModels \o <<"p","/","m",".","p","h","y">>
fModelE == <<"e","x","t","r","a","/","a">> \o sMdl
fMatA == sMaterials \o sModels \o <<"p","/","m">> \o sVmt
fMatB == <<"M","a","t","e","r","i","a","l","s","/","M","o","d","e","l","s","/","P","/",
           "m","_","d",".","V","M","T">>
fMatC == sMaterials \o <<"x">> \o sVmt
fTex1 == sMaterials \o <<"t","1">> \o sVtf
fTex2 == <<"M","a","t","e","r","i","a","l","s","/","T","2",".","v","t","f">>

kInclude == <<"i","n","c","l","u","d","e">>

PairsA == {
    << <<"b","a","s","e","t","e","x","t","u","r","e">>, <<"t","1">> >>,
    << kInclude, sMaterials \o sModels \o <<"p","/","m","_","d">> \o sVmt >>,
    << kInclude, sMaterials \o sMaterials \o <<"x">> >> }
PairsB == {
    << <<"B","u","m","p","M","a","p">>,
       <<"M","a","t","e","r","i","a","l","s","\\","T","2",".","V","T","F">> >>,
    << kInclude, sModels \o <<"p","/","m">> >>,
    << <<"I","n","c","l","u","d","e">>, <<"g","o","n","e">> \o sVmt >> }
PairsC == {
    << <<"d","e","t","a","i","l">>, <<" ","t","3"," ">> >>,
    << kInclude, <<"x">> >>,
    << kInclude, <<"m","o","d","e","l","s","\\","p","\\","m","_","d">> \o sVmt >> }

\* a pair every generated material holds, of a key that names no dependency
PairSurface == << <<"s","u","r","f","a","c","e","p","r","o","p">>, <<"m","e","t","a","l">> >>

\* a material is absent from the disk, or holds at most MaxPairs pairs of its
\* universe
Materials(universe) ==
    {[on_disk |-> FALSE, pairs |-> {}]}
    \cup {[on_disk |-> TRUE, pairs |-> S] :
              S \in {T \in SUBSET universe : Cardinality(T) <= MaxPairs}}

MdlTokens == [f \in {fModelM, fModelE} |->
    IF f = fModelM
    THEN {sMaterials \o <<"x">>, <<"a","b","_","c","d">>}
    ELSE {sModels \o <<"p","/","m">>}]

PackOf(a, b, c) ==
    [files |-> {fModelM, fModelMPhy, fModelE, fTex1, fTex2}
               \cup (IF a.on_disk THEN {fMatA} ELSE {})
               \cup (IF b.on_disk THEN {fMatB} ELSE {})
               \cup (IF c.on_disk THEN {fMatC} ELSE {}),
     content |-> [f \in (IF a.on_disk THEN {fMatA} ELSE {})
                        \cup (IF b.on_disk THEN {fMatB} ELSE {})
                        \cup (IF c.on_disk THEN {fMatC} ELSE {}) |->
                     {PairSurface} \cup (IF f = fMatA THEN a.pairs
                                          ELSE IF f = fMatB THEN b.pairs ELSE c.pairs)]]

Packs ==
    {PackOf(a, b, c) : a \in Materials(PairsA), b \in Materials(PairsB),
                       c \in Materials(PairsC)}

StartCandidates == {
    fMatA, fMatB,
    sMaterials \o sMaterials \o <<"x">> \o sVmt,
    sMaterials \o <<"g","o","n","e">> \o sVmt }

-----------------------------------------------------------------------------
(* collect_vmt_and_vtf, called on its own *)

IdleSel == spec_in = <<>> /\ max_index = 0 /\ sel_out = NoResult
IdleTrav == start_vmts = {} /\ to_visit = <<>> /\ seen_vmts = {} /\ vtfs = {}
            /\ read_failed = {}
IdleExp == rel_mdl = None /\ model_files = {} /\ copy_queue = <<>> /\ copied = {}
           /\ missing = <<>> /\ manifest = NoResult /\ copy_failed = None
IdleMain == models = <<>> /\ fs_nocase = FALSE /\ root_entries = {}
            /\ old_entries = {} /\ picks = <<>> /\ pick_pos = 0
            /\ n = 0 /\ export_dir = None /\ created_dirs = <<>> /\ failures = 0
            /\ attempted = {} /\ unit_names = <<>>

InitResolve ==
    /\ \E pack \in Packs :
           /\ all_files = pack.files
           /\ lc_map = build_file_index(pack.files)
           /\ content = pack.content
    /\ mdl_tokens = MdlTokens
    /\ start_vmts \in {S \in SUBSET StartCandidates : Cardinality(S) <= MaxStart}
    /\ to_visit = <<>> /\ seen_vmts = {} /\ vtfs = {} /\ read_failed = {}
    /\ pc = "call_collect"
    /\ IdleSel /\ IdleExp /\ IdleMain

CollectCall ==
    /\ pc = "call_collect"
    /\ CollectInit(start_vmts)
    /\ pc' = "traverse"
    /\ UNCHANGED <<start_vmts, read_failed>>
    /\ UNCHANGED <<selVars, packVars, expVars, mainVars>>

\* `return seen_vmts, vtfs`
CollectReturn ==
    /\ pc = "traverse" /\ Len(to_visit) = 0
    /\ pc' = "collected"
    /\ UNCHANGED <<selVars, packVars, travVars, expVars, mainVars>>

NextResolve == CollectCall \/ VisitSeen \/ VisitMissing \/ VisitReadFail
               \/ VisitParse \/ CollectReturn

SpecResolve == InitResolve /\ [][NextResolve]_vars

\* the loop is sequential code: it runs while it can
FairResolve == SpecResolve /\ WF_vars(NextResolve)

-----------------------------------------------------------------------------
(* Dependency gather for a model *)

\* index of the last occurrence of character c in s, 0 when there is none
LastIndexOf(s, c) ==
    IF c \in Range(s)
    THEN CHOOSE i \in 1..Len(s) : s[i] = c /\ \A j \in (i+1)..Len(s) : s[j] # c
    ELSE 0

\* str(Path(p).parent), "" standing for a parent without parts
ParentOf(p) == SubSeq(p, 1, LastIndexOf(p, "/") - 1)
\* Path(p).name
NameOf(p) == SubSeq(p, LastIndexOf(p, "/") + 1, Len(p))
\* Path(p).stem: the name without its last suffix
StemOf(p) ==
    LET name == NameOf(p)
        dot == LastIndexOf(name, ".")
    IN  IF dot > 1 /\ dot < Len(name) THEN SubSeq(name, 1, dot - 1) ELSE name

siblings_with_same_stem(mdl) ==
    LET stem == IF EndsWith(Lower(mdl), sMdl) THEN SubSeq(mdl, 1, Len(mdl) - 4) ELSE mdl
    IN  {mdl} \cup {stem \o MODEL_SIDE_EXTS[i] : i \in DOMAIN MODEL_SIDE_EXTS}

\* the candidates one token of the MDL scan gives
ScanToken(raw) ==
    LET token == Replace(raw, sBackslash, sSlash)
        t == Lower(token)
    IN  IF ~Contains(token, sSlash) THEN {}
        ELSE IF EndsWith(t, sVmt)
             THEN {IF StartsWith(t, sMaterials) THEN t ELSE sMaterials \o t}
        ELSE IF Contains(t, sModels) \/ Contains(t, sMaterials)
             THEN LET tt == IF StartsWith(t, sMaterials)
                            THEN SubSeq(t, Len(sMaterials) + 1, Len(t)) ELSE t
                  IN  {sMaterials \o tt \o sVmt}
        ELSE {}

\* The bytes of a model are given as the tokens the scan's pattern finds.
scan_mdl_for_material_candidates(tokens) == UNION {ScanToken(raw) : raw \in tokens}

\* the "same tree + same basename" candidates
FolderHeuristic(mdl) ==
    IF ParentOf(mdl) = <<>> THEN {}
    ELSE LET folder_hint == Lower(ParentOf(mdl))
             base_hint == Lower(StemOf(mdl))
         IN  {sMaterials \o folder_hint \o sSlash \o base_hint \o sVmt}
             \cup {Lower(f) : f \in {g \in all_files :
                       /\ EndsWith(Lower(g), sVmt)
                       /\ Contains(StemOf(Lower(g)), base_hint)
                       /\ Contains(Lower(g), folder_hint)}}

\* model_files of gather_deps_for_model
ModelFilesOf(mdl) ==
    {lc_map[key] : key \in {Lower(Replace(c, sBackslash, sSlash)) :
                                c \in siblings_with_same_stem(mdl)} \cap DOMAIN lc_map}

\* existing_vmts of gather_deps_for_model
ExistingVmts(vmt_candidates) ==
    {lc_map[Lower(v)] : v \in {w \in vmt_candidates : Lower(w) \in DOMAIN lc_map}}

\* export_one up to the first pop of the traversal, the model's bytes read
GatherScan ==
    /\ pc = "gather"
    /\ copied' = {} /\ missing' = <<>>
    /\ model_files' = ModelFilesOf(rel_mdl)
    /\ start_vmts' = ExistingVmts(
           scan_mdl_for_material_candidates(mdl_tokens[lc_map[Lower(rel_mdl)]])
           \cup FolderHeuristic(rel_mdl))
    /\ CollectInit(start_vmts')
    /\ read_failed' = {}
    /\ pc' = "traverse"
    /\ UNCHANGED <<rel_mdl, copy_queue, manifest, copy_failed>>
    /\ UNCHANGED <<selVars, packVars, mainVars>>

\* the same, read_bytes raising: the scan gives no candidate
GatherScanFailed ==
    /\ pc = "gather"
    /\ copied' = {} /\ missing' = <<>>
    /\ model_files' = ModelFilesOf(rel_mdl)
    /\ start_vmts' = ExistingVmts(FolderHeuristic(rel_mdl))
    /\ CollectInit(start_vmts')
    /\ read_failed' = {}
    /\ pc' = "traverse"
    /\ UNCHANGED <<rel_mdl, copy_queue, manifest, copy_failed>>
    /\ UNCHANGED <<selVars, packVars, mainVars>>

-----------------------------------------------------------------------------
(* export_one *)

\* gather_deps_for_model returns; the three copy loops are set up
GatherReturn ==
    /\ pc = "traverse" /\ Len(to_visit) = 0
    /\ copy_queue' = Sorted(model_files) \o Sorted(seen_vmts) \o Sorted(vtfs)
    /\ pc' = "copy"
    /\ UNCHANGED <<rel_mdl, model_files, copied, missing, manifest, copy_failed>>
    /\ UNCHANGED <<selVars, packVars, travVars, mainVars>>

\* real_rel of ensure_copy
ensure_copy_real(rel_path) == lc_get(Lower(Replace(rel_path, sBackslash, sSlash)))

\* an ensure_copy that copies whatever it is asked for
MutEnsureCopyOutcomesUnchecked(rel_path, done) ==
    IF ensure_copy_real(rel_path) # None /\ ensure_copy_real(rel_path) \in done
    THEN {"kept"} ELSE {"copied", "raised"}

\* an ensure_copy that reports a failed copy as an unresolved path
MutEnsureCopyOutcomesSwallowed(rel_path, done) ==
    IF ensure_copy_real(rel_path) = None THEN {"none"}
    ELSE IF ensure_copy_real(rel_path) \in done THEN {"kept"}
    ELSE {"copied", "none"}

\* what a call of ensure_copy can do: return None, return the path of a file
\* copied before, copy the file, or raise from shutil.copy2
EnsureCopyOutcomes(rel_path, done) ==
    IF ensure_copy_real(rel_path) = None THEN {"none"}
    ELSE IF ensure_copy_real(rel_path) \in done THEN {"kept"}
    ELSE {"copied", "raised"}

\* an ensure_copy that tracks the path it was asked for
MutCopiedPathRequested(rel_path) == rel_path

\* the path ensure_copy adds to `copied`
CopiedPath(rel_path) == ensure_copy_real(rel_path)

\* missing.append(f)
RecordMissing(lst, f) == Append(lst, f)

\* one iteration of the copy loops of export_one
CopyStep ==
    /\ pc = "copy" /\ Len(copy_queue) > 0
    /\ LET f == Head(copy_queue)
       IN  \E outcome \in EnsureCopyOutcomes(f, copied) :
               /\ copied' = IF outcome = "copied"
                            THEN copied \cup {CopiedPath(f)} ELSE copied
               /\ missing' = IF outcome = "none" THEN RecordMissing(missing, f)
                             ELSE missing
               /\ copy_failed' = IF outcome = "raised" THEN
                                     (IF ensure_copy_real(f) = None THEN f
                                      ELSE ensure_copy_real(f))
                                 ELSE copy_failed
               /\ pc' = IF outcome = "raised" THEN "raised" ELSE "copy"
               /\ copy_queue' = IF outcome = "raised" THEN copy_queue
                                ELSE Tail(copy_queue)
    /\ UNCHANGED <<rel_mdl, model_files, manifest>>
    /\ UNCHANGED <<selVars, packVars, travVars, mainVars>>

\* split_manifest.json
ManifestOf(mdl, done, lst) ==
    [model |-> mdl, copied_files |-> Sorted(done), missing |-> Sorted(Range(lst))]

\* the manifest and addon.json are written, export_one returns
WriteManifest ==
    /\ pc = "copy" /\ Len(copy_queue) = 0
    /\ manifest' = ManifestOf(rel_mdl, copied, missing)
    /\ pc' = "exported"
    /\ UNCHANGED <<rel_mdl, model_files, copy_queue, copied, missing, copy_failed>>
    /\ UNCHANGED <<selVars, packVars, travVars, mainVars>>

\* the .mdl paths of list_model_paths, as a set
ModelPaths(files) == {f \in files : EndsWith(Lower(f), sMdl)}

InitExport ==
    /\ \E pack \in Packs :
           /\ all_files = pack.files
           /\ lc_map = build_file_index(pack.files)
           /\ content = pack.content
    /\ mdl_tokens = MdlTokens
    /\ rel_mdl \in ModelPaths(all_files)
    /\ model_files = {} /\ copy_queue = <<>> /\ copied = {} /\ missing = <<>>
    /\ manifest = NoResult /\ copy_failed = None
    /\ pc = "gather"
    /\ IdleSel /\ IdleTrav /\ IdleMain

NextExport == GatherScan \/ GatherScanFailed
              \/ VisitSeen \/ VisitMissing \/ VisitReadFail \/ VisitParse
              \/ GatherReturn \/ CopyStep \/ WriteManifest

SpecExport == InitExport /\ [][NextExport]_vars

-----------------------------------------------------------------------------
(* parse_selection, called on its own *)

\* the characters the generated selection expressions are made of
SelAlphabet == {"0", "1", "2", "-", ",", " ", "a"}

\* the expressions the spec names, with their max_index
SelExamples == {
    << <<"1",",","5","-","7",",","1","2">>, 10 >>,
    << <<"a","l","l">>, 10 >>,
    << <<" ","A","L","L"," ">>, 10 >>,
    << <<"*">>, 10 >>,
    << <<"a","b","c">>, 10 >>,
    << <<"7","-","5"," ","6",",","1","-","1">>, 10 >> }

InitSel ==
    /\ \/ /\ spec_in \in UNION {[1..k -> SelAlphabet] : k \in 0..MaxSpecLen}
          /\ max_index \in 1..MaxIndex
       \/ \E ex \in SelExamples : spec_in = ex[1] /\ max_index = ex[2]
    /\ sel_out = NoResult
    /\ pc = "sel_call"
    /\ all_files = {} /\ lc_map = <<>> /\ content = <<>> /\ mdl_tokens = <<>>
    /\ IdleTrav /\ IdleExp /\ IdleMain

ParseSelection ==
    /\ pc = "sel_call"
    /\ sel_out' = parse_selection(spec_in, max_index)
    /\ pc' = "sel_done"
    /\ UNCHANGED <<spec_in, max_index>>
    /\ UNCHANGED <<packVars, travVars, expVars, mainVars>>

NextSel == ParseSelection

SpecSel == InitSel /\ [][NextSel]_vars

-----------------------------------------------------------------------------
(* Export naming *)

sExported == <<"E","X","P","O","R","T","E","D">>

\* the text after leading whitespace
LStrip(s) ==
    IF \A i \in 1..Len(s) : IsSpace(s[i]) THEN <<>>
    ELSE SubSeq(s, CHOOSE i \in 1..Len(s) :
                       ~IsSpace(s[i]) /\ \A j \in 1..(i-1) : IsSpace(s[j]), Len(s))

\* re.fullmatch(r"EXPORTED\s*(\d+)", name, flags=re.IGNORECASE)
ExportedMatch(name) ==
    /\ StartsWith(Lower(name), Lower(sExported))
    /\ IsDigit(LStrip(SubSeq(name, Len(sExported) + 1, Len(name))))

\* int(m.group(1))
ExportedNumber(name) == IntOf(LStrip(SubSeq(name, Len(sExported) + 1, Len(name))))

RECURSIVE MaxOf(_)
MaxOf(S) == IF S = {} THEN 0
            ELSE LET x == CHOOSE y \in S : TRUE
                     m == MaxOf(S \ {x})
                 IN  IF x > m THEN x ELSE m

\* a numbering that does not look at the directories there are
MutNextExportNumberOne(entries) == 1

next_export_number(entries) ==
    MaxOf({ExportedNumber(e.name) : e \in {d \in entries : d.isdir /\ ExportedMatch(d.name)}}) + 1

export_name(k) == sExported \o StrOf(k)

\* Path.exists() of a name in the root directory
Exists(entries, nocase, name) ==
    \E e \in entries : e.name = name \/ (nocase /\ Lower(e.name) = Lower(name))

-----------------------------------------------------------------------------
(* main *)

\* the sort key of list_model_paths
ModelKeyLess(a, b) ==
    LET ga == IF StartsWith(Lower(a), sModels) THEN 0 ELSE 1
        gb == IF StartsWith(Lower(b), sModels) THEN 0 ELSE 1
    IN  ga < gb \/ (ga = gb /\ StrLess(Lower(a), Lower(b)))

RECURSIVE SortModels(_)
SortModels(S) ==
    IF S = {} THEN <<>>
    ELSE LET m == CHOOSE x \in S : \A y \in S \ {x} : ModelKeyLess(x, y)
         IN  <<m>> \o SortModels(S \ {m})

list_model_paths(files) == SortModels(ModelPaths(files))

\* what the user may type at the prompt
MainInputs == {
    <<" ">>,
    <<"x">>,
    <<"9">>,
    <<"1">>,
    <<"2",",","1">>,
    <<"a","l","l">> }

\* the prompt loop goes round: nothing typed, a bad token, or nothing selected
PromptAgain ==
    /\ pc = "prompt"
    /\ \E typed \in MainInputs :
           /\ spec_in' = Strip(typed)
           /\ \/ Len(spec_in') = 0
              \/ parse_selection(spec_in', Len(models)).err
              \/ Len(parse_selection(spec_in', Len(models)).val) = 0
           /\ sel_out' = IF Len(spec_in') = 0 THEN sel_out
                         ELSE parse_selection(spec_in', Len(models))
    /\ UNCHANGED <<max_index, pc>>
    /\ UNCHANGED <<packVars, travVars, expVars, mainVars>>

\* a selection is accepted; the starting export number is found
PromptAccepted ==
    /\ pc = "prompt"
    /\ \E typed \in MainInputs :
           /\ spec_in' = Strip(typed)
           /\ Len(spec_in') > 0
           /\ LET r == parse_selection(spec_in', Len(models))
              IN  /\ ~r.err /\ Len(r.val) > 0
                  /\ sel_out' = r
                  /\ picks' = r.val
    /\ n' = next_export_number(root_entries)
    /\ old_entries' = root_entries
    /\ pick_pos' = 1
    /\ created_dirs' = <<>> /\ failures' = 0
    /\ pc' = "loop"
    /\ UNCHANGED <<max_index, models, fs_nocase, root_entries, export_dir,
                   attempted, unit_names>>
    /\ UNCHANGED <<packVars, travVars, expVars>>

\* the first number from k on whose EXPORTED name is free
RECURSIVE FirstFree(_, _, _)
FirstFree(entries, nocase, k) ==
    IF Exists(entries, nocase, export_name(k))
    THEN FirstFree(entries, nocase, k + 1) ELSE k

\* the number of the directory the loop body makes when the counter is k:
\* export_name(k), or after a FileExistsError the first free name after it
UnitNumber(entries, nocase, k) ==
    IF Exists(entries, nocase, export_name(k))
    THEN FirstFree(entries, nocase, k + 1) ELSE k

\* the head of the loop body: the Export Unit's directory is made and
\* export_one is called
LoopNext ==
    /\ pc = "loop" /\ pick_pos <= Len(picks)
    /\ rel_mdl' = models[picks[pick_pos]]
    /\ LET k == UnitNumber(root_entries, fs_nocase, n)
       IN  /\ export_dir' = export_name(k)
           /\ n' = k + 1
           /\ root_entries' = root_entries \cup {[name |-> export_name(k), isdir |-> TRUE]}
           /\ unit_names' = Append(unit_names, export_name(k))
    /\ attempted' = attempted \cup {pick_pos}
    /\ manifest' = NoResult /\ copy_failed' = None
    /\ pc' = "gather"
    /\ UNCHANGED <<models, fs_nocase, old_entries, picks, pick_pos, created_dirs, failures>>
    /\ UNCHANGED <<model_files, copy_queue, copied, missing>>
    /\ UNCHANGED <<selVars, packVars, travVars>>

\* export_one returned
ExportDone ==
    /\ pc = "exported"
    /\ created_dirs' = Append(created_dirs, export_dir)
    /\ pick_pos' = pick_pos + 1
    /\ pc' = "loop"
    /\ UNCHANGED <<models, fs_nocase, root_entries, old_entries, picks, n, export_dir,
                   failures, attempted, unit_names>>
    /\ UNCHANGED <<selVars, packVars, travVars, expVars>>

\* a loop that stops at the first model whose export raises
MutPickAfterFailureStops(pos, sel) == Len(sel) + 1

\* the pick the loop goes on with after `except Exception`
PickAfterFailure(pos, sel) == pos + 1

\* export_one raised: the per-model handler counts the failure
ExportFailed ==
    /\ pc = "raised"
    /\ failures' = failures + 1
    /\ pick_pos' = PickAfterFailure(pick_pos, picks)
    /\ pc' = "loop"
    /\ UNCHANGED <<models, fs_nocase, root_entries, old_entries, picks, n, export_dir,
                   created_dirs, attempted, unit_names>>
    /\ UNCHANGED <<selVars, packVars, travVars, expVars>>

\* the loop is over: the summary is printed and main returns 0
LoopEnd ==
    /\ pc = "loop" /\ pick_pos > Len(picks)
    /\ pc' = "done"
    /\ UNCHANGED <<selVars, packVars, travVars, expVars, mainVars>>

\* largest number of an EXPORTED entry there is before the run
MaxExisting == 3

\* for a number k the root holds nothing, the directory "EXPORTED<k>", the
\* file "exported<k>", or the directory "Exported <k>"
EntryOf(k, kind) ==
    IF kind = "dir" THEN {[name |-> export_name(k), isdir |-> TRUE]}
    ELSE IF kind = "file" THEN {[name |-> Lower(sExported) \o StrOf(k), isdir |-> FALSE]}
    ELSE IF kind = "spaced" THEN {[name |-> <<"E">> \o Tail(Lower(sExported))
                                            \o <<" ">> \o StrOf(k),
                                   isdir |-> TRUE]}
    ELSE {}

RootEntries ==
    {UNION {EntryOf(k, kinds[k]) : k \in 1..MaxExisting} :
         kinds \in [1..MaxExisting -> {"absent", "dir", "file", "spaced"}]}

\* the pack main runs on: material A includes B, B includes a material that
\* is not there
MainPacks == {
    PackOf([on_disk |-> TRUE, pairs |-> {
                << kInclude, sMaterials \o sModels \o <<"p","/","m","_","d">> \o sVmt >>}],
           [on_disk |-> TRUE, pairs |-> {
                << <<"I","n","c","l","u","d","e">>, <<"g","o","n","e">> \o sVmt >>}],
           [on_disk |-> FALSE, pairs |-> {}]) }

sModelsDir == <<"m","o","d","e","l","s">>
sMaterialsDir == <<"m","a","t","e","r","i","a","l","s">>

InitMain ==
    /\ \E pack \in MainPacks :
           /\ all_files = pack.files
           /\ lc_map = build_file_index(pack.files)
           /\ content = pack.content
           /\ models = list_model_paths(pack.files)
    /\ mdl_tokens = MdlTokens
    /\ fs_nocase \in BOOLEAN
    /\ \E existing \in RootEntries :
           root_entries = existing \cup {[name |-> sModelsDir, isdir |-> TRUE],
                                         [name |-> sMaterialsDir, isdir |-> TRUE],
                                         [name |-> <<"e","x","t","r","a">>, isdir |-> TRUE]}
    /\ old_entries = {} /\ picks = <<>> /\ pick_pos = 0 /\ n = 0
    /\ export_dir = None /\ created_dirs = <<>> /\ failures = 0
    /\ attempted = {} /\ unit_names = <<>>
    /\ pc = "prompt"
    /\ IdleSel /\ IdleTrav /\ IdleExp

NextMain == PromptAgain \/ PromptAccepted \/ LoopNext
            \/ GatherScan \/ GatherScanFailed
            \/ VisitSeen \/ VisitMissing \/ VisitReadFail \/ VisitParse
            \/ GatherReturn \/ CopyStep \/ WriteManifest
            \/ ExportDone \/ ExportFailed \/ LoopEnd

SpecMain == InitMain /\ [][NextMain]_vars

-----------------------------------------------------------------------------
(* What the traversal is to compute, stated on the include graph *)

\* the include references of a material path, none when it resolves to no file
IncludesOf(v) ==
    IF Resolve(v) = None THEN {}
    ELSE parse_vmt_for_dependencies(content[Resolve(v)]).includes

\* the texture candidates of a material path
TexturesOf(v) ==
    IF Resolve(v) = None THEN {}
    ELSE {Lower(t) : t \in parse_vmt_for_dependencies(content[Resolve(v)]).vtfs}

RECURSIVE ReachFrom(_)
ReachFrom(S) ==
    LET next == S \cup UNION {IncludesOf(v) : v \in S}
    IN  IF next = S THEN S ELSE ReachFrom(next)

\* the materials reachable from the start set through include references
Reachable == ReachFrom({Lower(s) : s \in start_vmts})

ExpectedVtfs == UNION {TexturesOf(v) : v \in {w \in Reachable : Resolve(w) # None}}

keyA == Lower(fMatA)
keyB == Lower(fMatB)
keyC == Lower(fMatC)
keyDoubleC == sMaterials \o keyC

\* C1: on every pack and every include graph, cyclic ones included, the
\* traversal terminates: it comes to return with an empty work list.
C1_TraversalTerminates == <>(pc = "collected" /\ Len(to_visit) = 0)

\* a finished traversal that went through a self-include and through a chain
\* of includes leading back to an ancestor
C1_Witness ==
    /\ pc = "collected" /\ Len(to_visit) = 0
    /\ keyC \in seen_vmts /\ keyC \in IncludesOf(keyC)
    /\ keyA \in seen_vmts /\ keyB \in seen_vmts
    /\ keyB \in IncludesOf(keyA) /\ keyA \in IncludesOf(keyB)
    /\ read_failed = {}

\* C2: when every read succeeds, the texture set returned is, whatever the
\* order of the pops, the union of the texture candidates of the materials
\* that are reachable through includes and resolve to a file; the materials
\* visited are exactly the reachable ones.
C2_TextureSetIsClosure ==
    (pc = "collected" /\ read_failed = {}) =>
        (vtfs = ExpectedVtfs /\ seen_vmts = Reachable)

\* A includes B and B includes A, both hold a texture, both textures returned
C2_Witness ==
    /\ pc = "collected" /\ read_failed = {}
    /\ keyB \in IncludesOf(keyA) /\ keyA \in IncludesOf(keyB)
    /\ TexturesOf(keyA) # {} /\ TexturesOf(keyB) # {}
    /\ TexturesOf(keyA) \cup TexturesOf(keyB) \subseteq vtfs

\* a path of the form materials/materials/x.vmt
IsDoublePrefixed(v) == StartsWith(v, sMaterials \o sMaterials)
\* the same path with one prefix taken off: materials/x.vmt
SinglePrefixed(v) == SubSeq(v, Len(sMaterials) + 1, Len(v))

\* C10: a visited material materials/materials/x.vmt that is not in the
\* index, while materials/x.vmt is, resolves to the file of materials/x.vmt,
\* and the traversal has collected that file's textures and visited its
\* includes.
C10_DoublePrefixResolves ==
    pc = "collected" =>
        \A v \in seen_vmts \ read_failed :
            (/\ IsDoublePrefixed(v)
             /\ v \notin DOMAIN lc_map
             /\ SinglePrefixed(v) \in DOMAIN lc_map) =>
                LET deps == parse_vmt_for_dependencies(content[lc_map[SinglePrefixed(v)]])
                IN  /\ Resolve(v) = lc_map[SinglePrefixed(v)]
                    /\ {Lower(t) : t \in deps.vtfs} \subseteq vtfs
                    /\ deps.includes \subseteq seen_vmts

\* materials/x.vmt was visited only under its double-prefixed name, and its
\* texture was collected
C10_Witness ==
    /\ pc = "collected"
    /\ keyDoubleC \in seen_vmts \ read_failed
    /\ keyC \notin seen_vmts
    /\ keyDoubleC \notin DOMAIN lc_map /\ keyC \in DOMAIN lc_map
    /\ TexturesOf(keyC) # {}
    /\ TexturesOf(keyC) \subseteq vtfs

-----------------------------------------------------------------------------
(* The claims about gather_deps_for_model and export_one *)

\* the paths export_one hands to ensure_copy
Requested == model_files \cup seen_vmts \cup vtfs
\* the key ensure_copy looks a requested path up under
NormKey(f) == Lower(Replace(f, sBackslash, sSlash))

\* C3: gather_deps_for_model returns only material and texture paths that
\* are in the File Index.
C3_ReturnsOnlyExisting ==
    pc = "copy" => \A f \in seen_vmts \cup vtfs : Lower(f) \in DOMAIN lc_map

\* C4: a texture path absent from the index does not abort the export: an
\* export_one that returns has listed every such path in the manifest's
\* missing list, and an export_one that raises does so on a file of the index.
C4_MissingTextureRecorded ==
    /\ pc = "exported" =>
           \A t \in vtfs : t \notin DOMAIN lc_map => t \in Range(manifest.missing)
    /\ pc = "raised" => copy_failed \in all_files

\* an export that returned, with a texture of a reachable material absent
\* from the index and listed as missing, the other files copied
C4_Witness ==
    /\ pc = "exported"
    /\ \E t \in vtfs : t \notin DOMAIN lc_map /\ t \in Range(manifest.missing)
    /\ \E t \in vtfs : t \in DOMAIN lc_map /\ lc_map[t] \in Range(manifest.copied_files)
    /\ rel_mdl \in Range(manifest.copied_files)

\* C5: the copied set holds only real paths of the index, no path is both
\* copied and missing, and when export_one returns every requested path whose
\* key is not in the index is in the missing list and was not copied.
C5_CopiedExistMissingRecorded ==
    /\ copied \subseteq all_files
    /\ Range(missing) \cap copied = {}
    /\ pc = "exported" =>
           /\ \A f \in Requested :
                  NormKey(f) \notin DOMAIN lc_map => (f \in Range(missing) /\ f \notin copied)
           /\ Range(manifest.copied_files) = copied
           /\ Range(manifest.missing) = Range(missing)

\* an export that returned having copied a file whose real path is not
\* lower-case and having recorded a missing path
C5_Witness ==
    /\ pc = "exported"
    /\ fMatB \in copied /\ fModelM \in copied
    /\ Len(missing) > 0

-----------------------------------------------------------------------------
(* The claims about parse_selection *)

\* the tokens of an expression: its maximal runs of characters that are
\* neither commas nor whitespace, left to right
TokenStarts(s) == {i \in 1..Len(s) : ~IsSep(s[i]) /\ (i = 1 \/ IsSep(s[i-1]))}
TokenAt(s, i) ==
    SubSeq(s, i, CHOOSE j \in i..Len(s) :
                     /\ \A k \in i..j : ~IsSep(s[k])
                     /\ (j = Len(s) \/ IsSep(s[j+1])))
RefTokens(s) ==
    [k \in 1..Cardinality(TokenStarts(s)) |->
        TokenAt(s, CHOOSE i \in TokenStarts(s) :
                       Cardinality({j \in TokenStarts(s) : j <= i}) = k)]

IsIndexToken(t) == Len(t) > 0 /\ \A i \in 1..Len(t) : t[i] \in Range(DigitChars)
IsRangeToken(t) ==
    \E k \in 1..Len(t) :
        /\ t[k] = "-"
        /\ IsIndexToken(SubSeq(t, 1, k - 1))
        /\ IsIndexToken(SubSeq(t, k + 1, Len(t)))

\* the indices a well-formed token names
NamedBy(t) ==
    IF IsIndexToken(t) THEN {IntOf(t)}
    ELSE LET k == CHOOSE i \in 1..Len(t) : t[i] = "-"
             a == IntOf(SubSeq(t, 1, k - 1))
             b == IntOf(SubSeq(t, k + 1, Len(t)))
         IN  IF a <= b THEN a..b ELSE b..a

\* the first token that names index x
FirstToken(toks, x) == CHOOSE k \in 1..Len(toks) :
    x \in NamedBy(toks[k]) /\ \A j \in 1..(k-1) : x \notin NamedBy(toks[j])

\* val is the list the tokens name: each index of 1..maxi that a token names,
\* once, in the order of first occurrence
IsSelectionOf(val, toks, maxi) ==
    /\ \A p, q \in 1..Len(val) : val[p] = val[q] => p = q
    /\ Range(val) = UNION {NamedBy(toks[k]) : k \in 1..Len(toks)} \cap 1..maxi
    /\ \A p, q \in 1..Len(val) : p < q =>
           \/ FirstToken(toks, val[p]) < FirstToken(toks, val[q])
           \/ /\ FirstToken(toks, val[p]) = FirstToken(toks, val[q])
              /\ val[p] < val[q]

SelectionClaim(allWords) ==
    pc = "sel_done" =>
        LET s == Lower(Strip(spec_in))
            toks == RefTokens(s)
        IN  IF s \in allWords
            THEN ~sel_out.err /\ sel_out.val = [i \in 1..max_index |-> i]
            ELSE IF \E k \in 1..Len(toks) : ~(IsIndexToken(toks[k]) \/ IsRangeToken(toks[k]))
            THEN sel_out.err
            ELSE ~sel_out.err /\ IsSelectionOf(sel_out.val, toks, max_index)

\* C7 as the spec states it: "all" gives 1..max_index, every other expression
\* gives the list its tokens name, and any token that is neither a digit
\* string nor digits-dash-digits raises an error.
C7_SelectionAsStated == SelectionClaim({<<"a","l","l">>})

\* C7 amended: "all" and "*" give 1..max_index; every other expression gives
\* the list its tokens name (ranges with reversed bounds swapped, each index
\* once at its first occurrence, indices outside 1..max_index dropped), or
\* raises an error when a token is neither a digit string nor
\* digits-dash-digits.
C7_SelectionParsed == SelectionClaim({<<"a","l","l">>, <<"*">>})

\* "1,5-7,12" against max_index = 10 has given [1, 5, 6, 7]
C7_Witness ==
    /\ pc = "sel_done"
    /\ spec_in = <<"1",",","5","-","7",",","1","2">> /\ max_index = 10
    /\ ~sel_out.err /\ sel_out.val = <<1, 5, 6, 7>>

-----------------------------------------------------------------------------
(* The claims about main's export loop *)

\* the numbers of the EXPORTED<n> directories there were before the loop
OldDirNumbers ==
    {ExportedNumber(e.name) : e \in {d \in old_entries : d.isdir /\ ExportedMatch(d.name)}}

\* whether something that is not a directory bore an EXPORTED<n> name
OldNonDirExported == \E e \in old_entries : ~e.isdir /\ ExportedMatch(e.name)

\* C6: every Export Unit is written into a directory that was not there
\* before: its name is new, its number is larger than that of every
\* EXPORTED<n> directory there was and than that of every unit made before
\* it; with only directories bearing such names, the first unit's number is
\* one more than the largest of them.
C6_UnitsAreNewDirectories ==
    pc # "prompt" =>
        /\ \A i \in 1..Len(unit_names) :
               /\ ~Exists(old_entries, fs_nocase, unit_names[i])
               /\ unit_names[i] = sExported \o StrOf(ExportedNumber(unit_names[i]))
               /\ ExportedNumber(unit_names[i]) > MaxOf(OldDirNumbers)
               /\ \A j \in 1..(i-1) :
                      ExportedNumber(unit_names[j]) < ExportedNumber(unit_names[i])
               /\ [name |-> unit_names[i], isdir |-> TRUE] \in root_entries
        /\ (Len(unit_names) > 0 /\ ~OldNonDirExported) =>
               ExportedNumber(unit_names[1]) = MaxOf(OldDirNumbers) + 1

\* EXPORTED1 and EXPORTED3 were there (and no other such entry); two units
\* were made, EXPORTED4 and EXPORTED5
C6_Witness ==
    /\ pc = "done"
    /\ {e \in old_entries : ExportedMatch(e.name)}
           = {[name |-> sExported \o <<"1">>, isdir |-> TRUE],
              [name |-> sExported \o <<"3">>, isdir |-> TRUE]}
    /\ unit_names = <<sExported \o <<"4">>, sExported \o <<"5">> >>

=============================================================================
